---- MODULE Spec2Model ----
(***************************************************************************)
(* Model of the blood-bag chaincode (src/blood.js): the ledger handlers    *)
(* createBloodBag, readBloodBag, deleteBloodBag, moveBagToLocation and     *)
(* assignBloodBagReceiver acting on the world state through the stub, and  *)
(* the history iteration of getAllResults / getHistoryForBloodBag.         *)
(*                                                                         *)
(* Strings are TLA+ strings.  A Buffer is the sequence of the tokens of    *)
(* its text: <<>> is the empty buffer, <<U0000>> the one-character text    *)
(* written under an index key, and JSON text is "{", key, value, ..., "}". *)
(***************************************************************************)
EXTENDS Integers, Sequences, FiniteSets, TLC

VARIABLES store, txn, recon, calls

vars == <<store, txn, recon, calls>>

-----------------------------------------------------------------------------
(* Strings and buffers *)

\* The character U+0000, which createCompositeKey puts between the parts of a key.
U0000 == "\\u0000"

EmptyBuffer == <<>>

\* Buffer.from(str) for a text of one token.
BufferFrom(str) == <<str>>

\* buffer.toString() is truthy exactly when the buffer is not empty.
NonEmptyString(buffer) == buffer # EmptyBuffer

\* !bagAsBytes: getState resolves to a Buffer, empty for a key that holds
\* nothing (createBloodBag and readBloodBag call toString() on it unguarded),
\* and an object is never falsy.
IsFalsyBuffer(buffer) == FALSE

-----------------------------------------------------------------------------
(* JSON *)

\* The properties of a blood bag in the order createBloodBag assigns them.
BagKeys == <<"docType", "id", "originId", "location", "status", "recipient",
             "destination", "type", "rh", "size">>

\* JSON.stringify of a bag object: its properties in insertion order.
RECURSIVE StringifyFrom(_, _)
StringifyFrom(bag, n) ==
    IF n > Len(BagKeys) THEN <<"}">>
    ELSE <<BagKeys[n], bag[BagKeys[n]]>> \o StringifyFrom(bag, n + 1)

JSONstringify(bag) == <<"{">> \o StringifyFrom(bag, 1)

\* JSON.parse throws unless the text is an object: "{", pairs, "}".
JSONparseThrows(buffer) ==
    \/ Len(buffer) < 2
    \/ Len(buffer) % 2 # 0
    \/ buffer[1] # "{"
    \/ buffer[Len(buffer)] # "}"

\* JSON.parse of an object text: each key with the value that follows it.
JSONparse(buffer) ==
    LET n == (Len(buffer) - 2) \div 2
    IN  [k \in {buffer[2 * j] : j \in 1..n} |->
            buffer[2 * (CHOOSE j \in 1..n : buffer[2 * j] = k) + 1]]

-----------------------------------------------------------------------------
(* The stub: world state and composite keys *)

\* stub.createCompositeKey(objectType, [a, b]).
createCompositeKey(objectType, a, b) ==
    U0000 \o objectType \o U0000 \o a \o U0000 \o b \o U0000

\* createCompositeKey yields no key when a part is not a non-empty string.
CompositeKeyFails(a, b) == a = "" \/ b = ""

indexName == "type~id"

getState(st, key) == st[key]

putState(st, key, value) == [st EXCEPT ![key] = value]

deleteState(st, key) == [st EXCEPT ![key] = EmptyBuffer]

-----------------------------------------------------------------------------
(* Arguments the handlers are invoked with *)

\* The ids bags are created with are simple keys: any non-empty string outside
\* the namespace of composite keys (no leading U+0000).  Nothing checks an id
\* or a type for U+0000 inside it.
Ids == {"B1", "X\\u0000B1"}

OriginIds == {"D1"}

Locations == {"Lab"}

Types == {"O", "O\\u0000X"}

RHs == {"+"}

Sizes == {"450"}

\* The (recipient, destination) pairs a bag is assigned to.
Assignments == {<<"R1", "Hospital">>, <<"R2", "Clinic">>}

\* Where a bag is moved to: any string, the initial marker included.
MoveLocations == {"Hospital", "UNASIGNED"}

IndexKeys == {createCompositeKey(indexName, t, i) : t \in Types, i \in Ids}

Keys == Ids \cup IndexKeys

ValidCreateArgs ==
    {<<i, o, l, t, r, s>> : i \in Ids, o \in OriginIds, l \in Locations,
                            t \in Types, r \in RHs, s \in Sizes}

\* Calls that fail input sanitation: one argument empty, or one missing.
InvalidCreateArgs ==
    {[a \in 1..6 |-> IF a = n THEN "" ELSE <<i, "D1", "Lab", "O", "+", "450">>[a]] :
        i \in Ids, n \in 2..6}
    \cup {<<"", "D1", "Lab", "O", "+", "450">>, <<"B1", "D1", "Lab", "O", "+">>}

CreateArgs == ValidCreateArgs \cup InvalidCreateArgs

\* An index key passed as the ID of a bag: what createBloodBag stores under
\* it is a value that is not empty and is not JSON.
IndexKeyIds == {createCompositeKey(indexName, "O", "B1")}

IdArgs == {<<i>> : i \in Ids \cup IndexKeyIds} \cup {<<"">>, <<>>}

MoveArgs ==
    {<<i, l>> : i \in Ids, l \in MoveLocations}
    \cup {<<i, "Hospital">> : i \in IndexKeyIds}
    \cup {<<"B1">>}

AssignArgs ==
    {<<i, a[1], a[2]>> : i \in Ids, a \in Assignments}
    \cup {<<i, "R1", "Hospital">> : i \in IndexKeyIds}
    \cup {<<"B1", "R1">>}

-----------------------------------------------------------------------------
(* Errors the handlers throw, by kind *)

InvalidArgument == "InvalidArgument"

AlreadyExists == "AlreadyExists"

NotFound == "NotFound"

DecodeError == "DecodeError"

IndexError == "IndexError"

NoError == ""

\* What a handler leaves behind: the world state, the error it threw (NoError
\* when it returned), its payload and the bytes it read at args[0].
Outcome(st, err, payload, bagAsBytes) ==
    [store |-> st, err |-> err, payload |-> payload, bagAsBytes |-> bagAsBytes]

-----------------------------------------------------------------------------
(* createBloodBag *)

\* The bag object createBloodBag builds from its six arguments.
NewBloodBag(args) ==
    [docType |-> "bloodbag",
     id |-> args[1],
     originId |-> args[2],
     location |-> args[3],
     status |-> "UNASIGNED",
     recipient |-> "UNASIGNED",
     destination |-> "UNASIGNED",
     type |-> args[4],
     rh |-> args[5],
     size |-> args[6]]

\* Input sanitation of createBloodBag.
CreateArgsInvalid(args) ==
    \/ Len(args) # 6
    \/ \E n \in 1..6 : Len(args[n]) <= 0

\* createBloodBag without its check that the bag already exists.
createBloodBagRun_NoExistenceCheck(st, args) ==
    IF CreateArgsInvalid(args) THEN Outcome(st, InvalidArgument, EmptyBuffer, EmptyBuffer)
    ELSE
      LET bloodBagState == getState(st, args[1])
          bloodBag == NewBloodBag(args)
          st1 == putState(st, args[1], JSONstringify(bloodBag))
          typeIdIndexKey == createCompositeKey(indexName, bloodBag.type, bloodBag.id)
          st2 == putState(st1, typeIdIndexKey, BufferFrom(U0000))
      IN  Outcome(st2, NoError, EmptyBuffer, bloodBagState)

createBloodBagRun(st, args) ==
    IF CreateArgsInvalid(args) THEN Outcome(st, InvalidArgument, EmptyBuffer, EmptyBuffer)
    ELSE
      LET bloodBagState == getState(st, args[1])
          bloodBag == NewBloodBag(args)
          st1 == putState(st, args[1], JSONstringify(bloodBag))
          typeIdIndexKey == createCompositeKey(indexName, bloodBag.type, bloodBag.id)
          st2 == putState(st1, typeIdIndexKey, BufferFrom(U0000))
      IN  IF NonEmptyString(bloodBagState)
          THEN Outcome(st, AlreadyExists, EmptyBuffer, bloodBagState)
          ELSE Outcome(st2, NoError, EmptyBuffer, bloodBagState)

-----------------------------------------------------------------------------
(* readBloodBag *)

readBloodBagRun(st, args) ==
    IF Len(args) # 1 THEN Outcome(st, InvalidArgument, EmptyBuffer, EmptyBuffer)
    ELSE IF args[1] = "" THEN Outcome(st, InvalidArgument, EmptyBuffer, EmptyBuffer)
    ELSE
      LET bloodBagAsBytes == getState(st, args[1])
      IN  IF ~NonEmptyString(bloodBagAsBytes)
          THEN Outcome(st, NotFound, EmptyBuffer, bloodBagAsBytes)
          ELSE Outcome(st, NoError, bloodBagAsBytes, bloodBagAsBytes)

-----------------------------------------------------------------------------
(* deleteBloodBag *)

\* deleteBloodBag deleting the index entry only, not the bag.
deleteBloodBagRun_IndexOnly(st, args) ==
    IF Len(args) # 1 THEN Outcome(st, InvalidArgument, EmptyBuffer, EmptyBuffer)
    ELSE IF args[1] = "" THEN Outcome(st, InvalidArgument, EmptyBuffer, EmptyBuffer)
    ELSE
      LET bagAsBytes == getState(st, args[1])
          bagJSON == JSONparse(bagAsBytes)
          typeIdIndexKey == createCompositeKey(indexName, bagJSON.type, bagJSON.id)
      IN  IF JSONparseThrows(bagAsBytes)
          THEN Outcome(st, DecodeError, EmptyBuffer, bagAsBytes)
          ELSE Outcome(deleteState(st, typeIdIndexKey), NoError, EmptyBuffer, bagAsBytes)

\* deleteBloodBag removing what it cannot decode all the same.
deleteBloodBagRun_BestEffort(st, args) ==
    IF Len(args) # 1 THEN Outcome(st, InvalidArgument, EmptyBuffer, EmptyBuffer)
    ELSE IF args[1] = "" THEN Outcome(st, InvalidArgument, EmptyBuffer, EmptyBuffer)
    ELSE
      LET bagAsBytes == getState(st, args[1])
          bagJSON == JSONparse(bagAsBytes)
          st1 == deleteState(st, args[1])
          typeIdIndexKey == createCompositeKey(indexName, bagJSON.type, bagJSON.id)
          st2 == deleteState(st1, typeIdIndexKey)
      IN  IF JSONparseThrows(bagAsBytes)
          THEN Outcome(st1, DecodeError, EmptyBuffer, bagAsBytes)
          ELSE Outcome(st2, NoError, EmptyBuffer, bagAsBytes)

deleteBloodBagRun(st, args) ==
    IF Len(args) # 1 THEN Outcome(st, InvalidArgument, EmptyBuffer, EmptyBuffer)
    ELSE IF args[1] = "" THEN Outcome(st, InvalidArgument, EmptyBuffer, EmptyBuffer)
    ELSE
      LET bagAsBytes == getState(st, args[1])
          bagJSON == JSONparse(bagAsBytes)
          st1 == deleteState(st, args[1])
          typeIdIndexKey == createCompositeKey(indexName, bagJSON.type, bagJSON.id)
          st2 == deleteState(st1, typeIdIndexKey)
      IN  IF IsFalsyBuffer(bagAsBytes)
          THEN Outcome(st, NotFound, EmptyBuffer, bagAsBytes)
          ELSE IF JSONparseThrows(bagAsBytes)
          THEN Outcome(st, DecodeError, EmptyBuffer, bagAsBytes)
          ELSE IF CompositeKeyFails(bagJSON.type, bagJSON.id) \/ typeIdIndexKey = ""
          THEN Outcome(st1, IndexError, EmptyBuffer, bagAsBytes)
          ELSE Outcome(st2, NoError, EmptyBuffer, bagAsBytes)

-----------------------------------------------------------------------------
(* moveBagToLocation *)

\* moveBagToLocation comparing the new location with the bag's location
\* instead of its destination.
MoveBag_ComparesLocation(bagToMove, location) ==
    IF bagToMove.location = location
    THEN [bagToMove EXCEPT !.location = location, !.status = "RECEIVED"]
    ELSE [bagToMove EXCEPT !.location = location, !.status = "INTRANSIT"]

\* moveBagToLocation recording the place the bag leaves as its origin.
MoveBag_OverwritesOrigin(bagToMove, location) ==
    IF bagToMove.destination = location
    THEN [bagToMove EXCEPT !.originId = bagToMove.location,
                           !.location = location, !.status = "RECEIVED"]
    ELSE [bagToMove EXCEPT !.originId = bagToMove.location,
                           !.location = location, !.status = "INTRANSIT"]

\* moveBagToLocation clearing the assignment of a bag that has arrived.
MoveBag_ClearsAssignment(bagToMove, location) ==
    IF bagToMove.destination = location
    THEN [bagToMove EXCEPT !.location = location, !.status = "RECEIVED",
                           !.recipient = "UNASIGNED", !.destination = "UNASIGNED"]
    ELSE [bagToMove EXCEPT !.location = location, !.status = "INTRANSIT"]

\* moveBagToLocation leaving the status of a bag without destination alone.
MoveBag_KeepsStatusUnassigned(bagToMove, location) ==
    IF bagToMove.destination = "UNASIGNED"
    THEN [bagToMove EXCEPT !.location = location]
    ELSE IF bagToMove.destination = location
    THEN [bagToMove EXCEPT !.location = location, !.status = "RECEIVED"]
    ELSE [bagToMove EXCEPT !.location = location, !.status = "INTRANSIT"]

\* The change moveBagToLocation makes to the bag it read.
MoveBag(bagToMove, location) ==
    IF bagToMove.destination = location
    THEN [bagToMove EXCEPT !.location = location, !.status = "RECEIVED"]
    ELSE [bagToMove EXCEPT !.location = location, !.status = "INTRANSIT"]

moveBagToLocationRun(st, args) ==
    IF Len(args) < 2 THEN Outcome(st, InvalidArgument, EmptyBuffer, EmptyBuffer)
    ELSE
      LET bagAsBytes == getState(st, args[1])
          bagToMove == MoveBag(JSONparse(bagAsBytes), args[2])
      IN  IF IsFalsyBuffer(bagAsBytes) \/ ~NonEmptyString(bagAsBytes)
          THEN Outcome(st, NotFound, EmptyBuffer, bagAsBytes)
          ELSE IF JSONparseThrows(bagAsBytes)
          THEN Outcome(st, DecodeError, EmptyBuffer, bagAsBytes)
          ELSE Outcome(putState(st, args[1], JSONstringify(bagToMove)),
                       NoError, EmptyBuffer, bagAsBytes)

-----------------------------------------------------------------------------
(* assignBloodBagReceiver *)

\* assignBloodBagReceiver keeping the recipient and destination of a bag that
\* is assigned already.
AssignBag_KeepsFirst(bagToMove, recipient, destination) ==
    IF bagToMove.status = "ASSIGNED"
    THEN bagToMove
    ELSE [bagToMove EXCEPT !.recipient = recipient,
                           !.destination = destination,
                           !.status = "ASSIGNED"]

\* assignBloodBagReceiver without its change of the status.
AssignBag_KeepsStatus(bagToMove, recipient, destination) ==
    [bagToMove EXCEPT !.recipient = recipient,
                      !.destination = destination]

\* The change assignBloodBagReceiver makes to the bag it read.
AssignBag(bagToMove, recipient, destination) ==
    [bagToMove EXCEPT !.recipient = recipient,
                      !.destination = destination,
                      !.status = "ASSIGNED"]

assignBloodBagReceiverRun(st, args) ==
    IF Len(args) < 3 THEN Outcome(st, InvalidArgument, EmptyBuffer, EmptyBuffer)
    ELSE
      LET bagAsBytes == getState(st, args[1])
          bagToMove == AssignBag(JSONparse(bagAsBytes), args[2], args[3])
      IN  IF IsFalsyBuffer(bagAsBytes) \/ ~NonEmptyString(bagAsBytes)
          THEN Outcome(st, NotFound, EmptyBuffer, bagAsBytes)
          ELSE IF JSONparseThrows(bagAsBytes)
          THEN Outcome(st, DecodeError, EmptyBuffer, bagAsBytes)
          ELSE Outcome(putState(st, args[1], JSONstringify(bagToMove)),
                       NoError, EmptyBuffer, bagAsBytes)

-----------------------------------------------------------------------------
(* The history iterator of the stub *)

\* How many modifications a key's history holds at most.
MaxHistory == 4

\* The bytes a modification carries: a bag as JSON, text that is not JSON,
\* or nothing at all, which is what a deletion leaves.
BagJSON == JSONstringify(NewBloodBag(<<"B1", "D1", "Lab", "O", "+", "450">>))

MovedJSON == JSONstringify(MoveBag(NewBloodBag(<<"B1", "D1", "Lab", "O", "+", "450">>), "Hospital"))

CorruptBytes == <<"{", "docType">>

\* What one modification of a key is: a write with its bytes, or a delete,
\* which carries no bytes (a nil value deletes the key).
Modifications ==
    {[value |-> v, is_delete |-> FALSE] : v \in {BagJSON, MovedJSON, CorruptBytes}}
    \cup {[value |-> EmptyBuffer, is_delete |-> TRUE]}

Histories == UNION {[1..n -> Modifications] : n \in 0..MaxHistory}

\* res.value of the n-th result: the modification with its transaction,
\* timestamp and key.
KeyModification(results, n) ==
    [value |-> results[n].value,
     is_delete |-> results[n].is_delete,
     tx_id |-> "tx" \o ToString(n),
     timestamp |-> "t" \o ToString(n),
     key |-> "B1"]

\* An iterator: its results, whether next() reports done together with the
\* last result or in a call of its own, and the call of next() that rejects
\* (0: none).
Iterators ==
    {[results |-> h, doneWithLast |-> d, failAt |-> f] :
        h \in Histories, d \in BOOLEAN, f \in 0..(MaxHistory + 1)}

\* The n-th call of iterator.next(): {value, done}.
IteratorNext(iterator, n) ==
    LET len == Len(iterator.results)
    IN  IF n <= len
        THEN [hasValue |-> TRUE,
              value |-> KeyModification(iterator.results, n),
              done |-> iterator.doneWithLast /\ n = len]
        ELSE [hasValue |-> FALSE,
              value |-> [value |-> EmptyBuffer],
              done |-> TRUE]

-----------------------------------------------------------------------------
(* getAllResults *)

\* A JavaScript value of a result entry: a parsed object or a string.
ObjectValue(object) == [type |-> "object", object |-> object]

StringValue(string) == [type |-> "string", string |-> string]

\* try { JSON.parse(text) } catch { text }
ParseOrText(buffer) ==
    IF JSONparseThrows(buffer) THEN StringValue(buffer) ELSE ObjectValue(JSONparse(buffer))

\* jsonRes for one result, as getAllResults fills it in.
JsonRes(value, isHistory) ==
    IF isHistory = TRUE
    THEN [TxId |-> value.tx_id,
          Timestamp |-> value.timestamp,
          IsDelete |-> IF value.is_delete THEN "true" ELSE "false",
          Value |-> ParseOrText(value.value)]
    ELSE IF JSONparseThrows(value.value)
    THEN [Key |-> value.key, Value |-> StringValue(value.value)]
    ELSE [Key |-> value.key, Record |-> ObjectValue(JSONparse(value.value))]

\* getAllResults looking at res.done before it looks at res.value.
RECURSIVE getAllResultsLoop_DoneFirst(_, _, _, _)
getAllResultsLoop_DoneFirst(iterator, isHistory, n, allResults) ==
    LET res == IteratorNext(iterator, n)
        pushed == IF res.hasValue /\ NonEmptyString(res.value.value)
                  THEN Append(allResults, JsonRes(res.value, isHistory))
                  ELSE allResults
    IN  IF iterator.failAt = n
        THEN [allResults |-> <<>>, threw |-> TRUE, open |-> TRUE]
        ELSE IF res.done
        THEN [allResults |-> allResults, threw |-> FALSE, open |-> FALSE]
        ELSE getAllResultsLoop_DoneFirst(iterator, isHistory, n + 1, pushed)

\* The loop of getAllResults from its n-th call of next() on: the entries it
\* returns, whether it threw instead, and whether the iterator is left open.
RECURSIVE getAllResultsLoop(_, _, _, _)
getAllResultsLoop(iterator, isHistory, n, allResults) ==
    LET res == IteratorNext(iterator, n)
        pushed == IF res.hasValue /\ NonEmptyString(res.value.value)
                  THEN Append(allResults, JsonRes(res.value, isHistory))
                  ELSE allResults
    IN  IF iterator.failAt = n
        THEN [allResults |-> <<>>, threw |-> TRUE, open |-> TRUE]
        ELSE IF res.done
        THEN [allResults |-> pushed, threw |-> FALSE, open |-> FALSE]
        ELSE getAllResultsLoop(iterator, isHistory, n + 1, pushed)

getAllResultsRun(iterator, isHistory) == getAllResultsLoop(iterator, isHistory, 1, <<>>)

-----------------------------------------------------------------------------
(* Invoke: dispatch by name, and the response *)

\* The response of Invoke for one call, with what the handler read.
Response(fcn, params, out) ==
    [fcn |-> fcn, params |-> params, err |-> out.err,
     payload |-> out.payload, bagAsBytes |-> out.bagAsBytes]

\* No iteration has run yet.
NoRecon == [ran |-> FALSE]

\* No two calls are in flight together.
NoCalls == [begin |-> <<>>, running |-> <<>>]

\* An iteration that has run: its inputs and what it left behind.
Recon(iterator, isHistory, out) ==
    [ran |-> TRUE, iterator |-> iterator, isHistory |-> isHistory,
     allResults |-> out.allResults, threw |-> out.threw, open |-> out.open]

Init ==
    /\ store = [k \in Keys |-> EmptyBuffer]
    /\ txn = [fcn |-> "Init", params |-> <<>>, err |-> NoError,
              payload |-> EmptyBuffer, bagAsBytes |-> EmptyBuffer]
    /\ recon = NoRecon
    /\ calls = NoCalls

Invoke(fcn, params, out) ==
    /\ store' = out.store
    /\ txn' = Response(fcn, params, out)
    /\ UNCHANGED <<recon, calls>>

createBloodBag ==
    \E args \in CreateArgs : Invoke("createBloodBag", args, createBloodBagRun(store, args))

readBloodBag ==
    \E args \in IdArgs : Invoke("readBloodBag", args, readBloodBagRun(store, args))

deleteBloodBag ==
    \E args \in IdArgs : Invoke("deleteBloodBag", args, deleteBloodBagRun(store, args))

moveBagToLocation ==
    \E args \in MoveArgs :
        Invoke("moveBagToLocation", args, moveBagToLocationRun(store, args))

assignBloodBagReceiver ==
    \E args \in AssignArgs :
        Invoke("assignBloodBagReceiver", args, assignBloodBagReceiverRun(store, args))

Next ==
    \/ createBloodBag
    \/ readBloodBag
    \/ deleteBloodBag
    \/ moveBagToLocation
    \/ assignBloodBagReceiver

Spec == Init /\ [][Next]_vars

-----------------------------------------------------------------------------
(* The history reconstruction on its own, over every iterator *)

IteratorError == "IteratorError"

\* JSON.stringify(results) of getHistoryForBloodBag, entry by entry.
RECURSIVE StringifyResults(_, _)
StringifyResults(results, n) ==
    IF n > Len(results) THEN <<"]">>
    ELSE <<"{", "TxId", results[n].TxId, "Timestamp", results[n].Timestamp,
           "IsDelete", results[n].IsDelete, "Value">>
         \o (IF results[n].Value.type = "object"
             THEN JSONstringify(results[n].Value.object)
             ELSE results[n].Value.string)
         \o <<"}">> \o StringifyResults(results, n + 1)

\* The iterator stub.getHistoryForKey resolves to is any of Iterators.
InitRecon ==
    /\ store = [k \in Keys |-> EmptyBuffer]
    /\ txn = [fcn |-> "Init", params |-> <<>>, err |-> NoError,
              payload |-> EmptyBuffer, bagAsBytes |-> EmptyBuffer]
    /\ \E iterator \in Iterators : recon = [ran |-> FALSE, iterator |-> iterator]
    /\ calls = NoCalls

getHistoryForBloodBag ==
    /\ ~recon.ran
    /\ LET iterator == recon.iterator
           out == getAllResultsRun(iterator, TRUE)
       IN  /\ recon' = Recon(iterator, TRUE, out)
            /\ txn' = [fcn |-> "getHistoryForBloodBag", params |-> <<"B1">>,
                       err |-> IF out.threw THEN IteratorError ELSE NoError,
                       payload |-> IF out.threw THEN EmptyBuffer
                                   ELSE <<"[">> \o StringifyResults(out.allResults, 1),
                       bagAsBytes |-> EmptyBuffer]
            /\ UNCHANGED <<store, calls>>

getAllResults ==
    /\ ~recon.ran
    /\ recon' = Recon(recon.iterator, FALSE, getAllResultsRun(recon.iterator, FALSE))
    /\ UNCHANGED <<store, txn, calls>>

NextRecon ==
    \/ getHistoryForBloodBag
    \/ getAllResults

SpecRecon == InitRecon /\ [][NextRecon]_vars

-----------------------------------------------------------------------------
(* Create, read and delete on a ledger that holds a bag without type *)

\* A bag whose type is empty: not one createBloodBag writes, but one the
\* ledger can hold and deleteBloodBag provides for when it checks the key.
UntypedBagJSON ==
    JSONstringify([NewBloodBag(<<"B1", "D1", "Lab", "O", "+", "450">>) EXCEPT !.type = ""])

InitUntyped ==
    /\ store = [k \in Keys |-> IF k = "B1" THEN UntypedBagJSON ELSE EmptyBuffer]
    /\ txn = [fcn |-> "Init", params |-> <<>>, err |-> NoError,
              payload |-> EmptyBuffer, bagAsBytes |-> EmptyBuffer]
    /\ recon = NoRecon
    /\ calls = NoCalls

NextUntyped ==
    \/ createBloodBag
    \/ readBloodBag
    \/ deleteBloodBag

SpecUntyped == InitUntyped /\ [][NextUntyped]_vars

-----------------------------------------------------------------------------
(* Two calls on one bag in flight together *)

\* Each handler runs up to its next await of the stub and then lets the other
\* go on: getState first, then its writes one by one.

\* The calls that are in flight: any two of these, on the same bag.
ConcurrentCalls ==
    {[fcn |-> "createBloodBag", params |-> <<"B1", "D1", "Lab", t, "+", "450">>] :
        t \in Types}
    \cup {[fcn |-> "deleteBloodBag", params |-> <<"B1">>],
          [fcn |-> "moveBagToLocation", params |-> <<"B1", "Hospital">>],
          [fcn |-> "assignBloodBagReceiver", params |-> <<"B1", "R1", "Hospital">>]}

\* The ledger the two calls start on: empty, with the bag as created, or with
\* the bag assigned.
EmptyStore == [k \in Keys |-> EmptyBuffer]

ConcurrentStores ==
    LET created == createBloodBagRun(EmptyStore, <<"B1", "D1", "Lab", "O", "+", "450">>).store
    IN  {EmptyStore, created,
         assignBloodBagReceiverRun(created, <<"B1", "R2", "Clinic">>).store}

\* A call that has been received and has not run yet.
Started(call) ==
    [fcn |-> call.fcn, params |-> call.params, at |-> "getState",
     err |-> NoError, bagAsBytes |-> EmptyBuffer]

InitConcurrent ==
    /\ store \in ConcurrentStores
    /\ txn = [fcn |-> "Init", params |-> <<>>, err |-> NoError,
              payload |-> EmptyBuffer, bagAsBytes |-> EmptyBuffer]
    /\ recon = NoRecon
    /\ \E c1 \in ConcurrentCalls, c2 \in ConcurrentCalls :
          calls = [begin |-> store, running |-> <<Started(c1), Started(c2)>>]

\* The call p goes on to its next await, or ends with err.
GoOn(p, at, err, bagAsBytes) ==
    calls' = [calls EXCEPT !.running[p].at = at,
                           !.running[p].err = err,
                           !.running[p].bagAsBytes = bagAsBytes]

\* await stub.getState(ID), and what the handler does until its first write.
AwaitGetState(p) ==
    LET call == calls.running[p]
        bagAsBytes == getState(store, call.params[1])
    IN  /\ call.at = "getState"
        /\ UNCHANGED <<store, txn, recon>>
        /\ IF call.fcn = "createBloodBag"
           THEN IF NonEmptyString(bagAsBytes)
                THEN GoOn(p, "end", AlreadyExists, bagAsBytes)
                ELSE GoOn(p, "putState", NoError, bagAsBytes)
           ELSE IF call.fcn = "deleteBloodBag"
           THEN IF IsFalsyBuffer(bagAsBytes)
                THEN GoOn(p, "end", NotFound, bagAsBytes)
                ELSE IF JSONparseThrows(bagAsBytes)
                THEN GoOn(p, "end", DecodeError, bagAsBytes)
                ELSE GoOn(p, "deleteState", NoError, bagAsBytes)
           ELSE IF IsFalsyBuffer(bagAsBytes) \/ ~NonEmptyString(bagAsBytes)
                THEN GoOn(p, "end", NotFound, bagAsBytes)
                ELSE IF JSONparseThrows(bagAsBytes)
                THEN GoOn(p, "end", DecodeError, bagAsBytes)
                ELSE GoOn(p, "putState", NoError, bagAsBytes)

\* await stub.putState(ID, ...): the bag the handler made of what it read.
AwaitPutState(p) ==
    LET call == calls.running[p]
        bag == IF call.fcn = "createBloodBag"
               THEN NewBloodBag(call.params)
               ELSE IF call.fcn = "moveBagToLocation"
               THEN MoveBag(JSONparse(call.bagAsBytes), call.params[2])
               ELSE AssignBag(JSONparse(call.bagAsBytes), call.params[2], call.params[3])
    IN  /\ call.at = "putState"
        /\ store' = putState(store, call.params[1], JSONstringify(bag))
        /\ GoOn(p, IF call.fcn = "createBloodBag" THEN "putIndex" ELSE "end",
                NoError, call.bagAsBytes)
        /\ UNCHANGED <<txn, recon>>

\* await stub.putState(typeIdIndexKey, ...) of createBloodBag.
AwaitPutIndex(p) ==
    LET call == calls.running[p]
        bloodBag == NewBloodBag(call.params)
    IN  /\ call.at = "putIndex"
        /\ store' = putState(store,
                             createCompositeKey(indexName, bloodBag.type, bloodBag.id),
                             BufferFrom(U0000))
        /\ GoOn(p, "end", NoError, call.bagAsBytes)
        /\ UNCHANGED <<txn, recon>>

\* await stub.deleteState(ID) of deleteBloodBag.
AwaitDeleteState(p) ==
    LET call == calls.running[p]
    IN  /\ call.at = "deleteState"
        /\ store' = deleteState(store, call.params[1])
        /\ GoOn(p, "deleteIndex", NoError, call.bagAsBytes)
        /\ UNCHANGED <<txn, recon>>

\* The composite key and await stub.deleteState(typeIdIndexKey).
AwaitDeleteIndex(p) ==
    LET call == calls.running[p]
        bagJSON == JSONparse(call.bagAsBytes)
        typeIdIndexKey == createCompositeKey(indexName, bagJSON.type, bagJSON.id)
    IN  /\ call.at = "deleteIndex"
        /\ UNCHANGED <<txn, recon>>
        /\ IF CompositeKeyFails(bagJSON.type, bagJSON.id) \/ typeIdIndexKey = ""
           THEN /\ GoOn(p, "end", IndexError, call.bagAsBytes)
                /\ UNCHANGED store
           ELSE /\ store' = deleteState(store, typeIdIndexKey)
                /\ GoOn(p, "end", NoError, call.bagAsBytes)

NextConcurrent ==
    \E p \in 1..2 :
        \/ AwaitGetState(p)
        \/ AwaitPutState(p)
        \/ AwaitPutIndex(p)
        \/ AwaitDeleteState(p)
        \/ AwaitDeleteIndex(p)

SpecConcurrent == InitConcurrent /\ [][NextConcurrent]_vars

\* What a call makes of a store when it runs alone.
RunAlone(st, call) ==
    IF call.fcn = "createBloodBag" THEN createBloodBagRun(st, call.params).store
    ELSE IF call.fcn = "deleteBloodBag" THEN deleteBloodBagRun(st, call.params).store
    ELSE IF call.fcn = "moveBagToLocation" THEN moveBagToLocationRun(st, call.params).store
    ELSE assignBloodBagReceiverRun(st, call.params).store

-----------------------------------------------------------------------------
(* Properties *)

\* The step is a call of fcn that got past the argument count nArgs, on id.
Called(fcn, nArgs, id) ==
    /\ txn'.fcn = fcn
    /\ Len(txn'.params) >= nArgs
    /\ txn'.params[1] = id

\* The state is the one a successful call of fcn on id left.
Succeeded(fcn, id) ==
    /\ txn.fcn = fcn
    /\ txn.err = NoError
    /\ txn.params[1] = id

\* C1: after a successful create (six non-empty arguments, no record at the
\* id), reading the id returns a record with status, recipient and destination
\* "UNASSIGNED" and the six supplied values in id, originId, location, type,
\* rh and size.
C1_CreateThenReadUnassigned ==
    (txn.fcn = "createBloodBag" /\ txn.err = NoError) =>
        LET read == readBloodBagRun(store, <<txn.params[1]>>)
            bag == JSONparse(read.payload)
        IN  /\ read.err = NoError
            /\ ~JSONparseThrows(read.payload)
            /\ bag.status = "UNASSIGNED"
            /\ bag.recipient = "UNASSIGNED"
            /\ bag.destination = "UNASSIGNED"
            /\ <<bag.id, bag.originId, bag.location, bag.type, bag.rh, bag.size>>
                   = txn.params

\* A record with this id and type is stored under the id.
RecordExists(st, type, id) ==
    /\ ~JSONparseThrows(st[id])
    /\ JSONparse(st[id]).type = type
    /\ JSONparse(st[id]).id = id

\* C2: in every state, the index entry at composite(type, id) exists if and
\* only if a record with that id and type exists.
C2_IndexIffRecord ==
    \A type \in Types, id \in Ids :
        NonEmptyString(store[createCompositeKey(indexName, type, id)])
            <=> RecordExists(store, type, id)

\* C3 as stated: a create on an id that holds a value fails with AlreadyExists
\* and leaves the store as it was, whatever the other five arguments are.
C3_CreateExistingAlwaysAlreadyExists ==
    [][\A id \in Ids :
          (Called("createBloodBag", 6, id) /\ Len(txn'.params) = 6
             /\ NonEmptyString(store[id]))
          => (txn'.err = AlreadyExists /\ store' = store)]_vars

\* C3, amended: a create on an id that holds a value leaves the store as it
\* was; it fails with AlreadyExists when the other five arguments are all
\* non-empty, and with InvalidArgument when one of them is empty.
C3_CreateExistingFails ==
    [][\A id \in Ids :
          (Called("createBloodBag", 6, id) /\ Len(txn'.params) = 6
             /\ NonEmptyString(store[id]))
          => /\ store' = store
             /\ txn'.err = IF \E n \in 2..6 : txn'.params[n] = ""
                           THEN InvalidArgument ELSE AlreadyExists]_vars

\* A create was refused because the id already holds a record.
C3_Witness ==
    /\ txn.fcn = "createBloodBag"
    /\ txn.err = AlreadyExists
    /\ NonEmptyString(store[txn.params[1]])
    /\ txn.bagAsBytes = store[txn.params[1]]

\* C4: read, delete, moveToLocation and assignReceiver on an id that holds no
\* value each fail with NotFound and leave the store unchanged.
C4_AbsentIsNotFound ==
    [][\A id \in Ids :
          ((\/ (Called("readBloodBag", 1, id) /\ Len(txn'.params) = 1)
            \/ (Called("deleteBloodBag", 1, id) /\ Len(txn'.params) = 1)
            \/ Called("moveBagToLocation", 2, id)
            \/ Called("assignBloodBagReceiver", 3, id))
           /\ store[id] = EmptyBuffer)
          => (txn'.err = NotFound /\ store' = store)]_vars

\* The step is a successful create on id.
CreateSucceeds(id) ==
    /\ Called("createBloodBag", 6, id)
    /\ txn'.err = NoError

C6_MoveSetsLocationAndStatus ==
    [][\A id \in Ids :
          (Called("moveBagToLocation", 2, id) /\ txn'.err = NoError)
          => LET before == JSONparse(store[id])
                 after == JSONparse(store'[id])
             IN  /\ ~JSONparseThrows(store'[id])
                 /\ after.location = txn'.params[2]
                 /\ after.status = IF txn'.params[2] = before.destination
                                   THEN "RECEIVED" ELSE "INTRANSIT"]_vars

\* A move to the assigned destination left the bag RECEIVED.
C6_Witness ==
    \E id \in Ids :
        /\ Succeeded("moveBagToLocation", id)
        /\ JSONparse(txn.bagAsBytes).destination = "Hospital"
        /\ txn.params[2] = "Hospital"
        /\ JSONparse(store[id]).status = "RECEIVED"

\* C7: an assign on an existing bag succeeds; when an assign on a bag
\* succeeded and the next call is an assign on the same bag with other
\* arguments, the second succeeds too, the record then has the second call's
\* recipient and destination and status ASSIGNED, and the store is what the
\* second call alone makes of the store the first call found.
C7_AssignLastWriteWins ==
    [][\A id \in Ids :
        /\ (Called("assignBloodBagReceiver", 3, id) /\ NonEmptyString(store[id]))
              => txn'.err = NoError
        /\ (Succeeded("assignBloodBagReceiver", id)
             /\ Called("assignBloodBagReceiver", 3, id)
             /\ txn'.params # txn.params)
          => LET after == JSONparse(store'[id])
                 found == [store EXCEPT ![id] = txn.bagAsBytes]
             IN  /\ txn'.err = NoError
                 /\ after.recipient = txn'.params[2]
                 /\ after.destination = txn'.params[3]
                 /\ after.status = "ASSIGNED"
                 /\ store' = assignBloodBagReceiverRun(found, txn'.params).store]_vars

\* An assign succeeded on a bag that was assigned to someone else before.
C7_Witness ==
    \E id \in Ids :
        /\ Succeeded("assignBloodBagReceiver", id)
        /\ JSONparse(txn.bagAsBytes).status = "ASSIGNED"
        /\ JSONparse(txn.bagAsBytes).recipient # txn.params[2]
        /\ JSONparse(txn.bagAsBytes).destination # txn.params[3]
        /\ JSONparse(store[id]).recipient = txn.params[2]

\* The history is some writes followed by one delete.
WritesThenDelete(results) ==
    /\ Len(results) >= 1
    /\ results[Len(results)].is_delete
    /\ \A n \in 1..(Len(results) - 1) : ~results[n].is_delete

\* C8: over a history of n writes followed by one delete, the reconstruction
\* with metadata returns n+1 entries in the order of the history, the last
\* one flagged as a deletion.
C8_DeleteIsLastEntry ==
    (recon.ran /\ recon.isHistory /\ ~recon.threw
       /\ WritesThenDelete(recon.iterator.results))
    => /\ Len(recon.allResults) = Len(recon.iterator.results)
       /\ \A n \in 1..Len(recon.allResults) :
             recon.allResults[n].TxId = "tx" \o ToString(n)
       /\ recon.allResults[Len(recon.allResults)].IsDelete = "true"

\* The history with the bytes of its n-th modification decodable again.
Uncorrupted(iterator, n) ==
    [iterator EXCEPT !.results[n].value = BagJSON]

\* Which entry the n-th modification of the history makes.
EntryOf(results, n) ==
    Cardinality({m \in 1..n : NonEmptyString(results[m].value)})

\* What tells the entries of a reconstruction apart, in their order.
EntryIds(allResults, isHistory) ==
    [n \in 1..Len(allResults) |->
        IF isHistory THEN allResults[n].TxId ELSE allResults[n].Key]

\* C9: a modification whose bytes do not decode changes neither the number
\* nor the order of the entries; its entry carries the raw bytes in the field
\* that carries the decoded record (Value with metadata, Record without), and
\* the reconstruction does not fail over it.
C9_CorruptEntryCarriesRawBytes ==
    recon.ran =>
        \A n \in 1..Len(recon.iterator.results) :
            recon.iterator.results[n].value = CorruptBytes =>
                LET clean == getAllResultsRun(Uncorrupted(recon.iterator, n),
                                              recon.isHistory)
                    field == IF recon.isHistory THEN "Value" ELSE "Record"
                IN  ~clean.threw =>
                      /\ ~recon.threw
                      /\ EntryIds(recon.allResults, recon.isHistory)
                            = EntryIds(clean.allResults, recon.isHistory)
                      /\ LET entry == recon.allResults[EntryOf(recon.iterator.results, n)]
                         IN  /\ field \in DOMAIN entry
                             /\ entry[field] = StringValue(CorruptBytes)

\* C10: once the reconstruction has returned or thrown, the iterator is
\* closed.
C10_IteratorClosed ==
    recon.ran => ~recon.open

\* The bag stored under id.
Bag(st, id) == JSONparse(st[id])

\* The value of one property in the JSON text of an object.
Property(buffer, key) ==
    buffer[2 * (CHOOSE j \in 1..((Len(buffer) - 2) \div 2) : buffer[2 * j] = key) + 1]

\* The properties of a stored bag that nothing changes after its creation.
Immutable(buffer) ==
    <<Property(buffer, "id"), Property(buffer, "originId"), Property(buffer, "type"),
      Property(buffer, "rh"), Property(buffer, "size")>>

\* The step is a successful move or assign on id.
LifecycleSucceeds(id) ==
    /\ Called("moveBagToLocation", 2, id) \/ Called("assignBloodBagReceiver", 3, id)
    /\ txn'.err = NoError

\* C12: a successful create stores the supplied id, originId, type, rh and
\* size, and as long as the record stays (no delete in between) every step,
\* moves and assigns included, leaves these five as they are.
C12_ImmutableFields ==
    [][\A id \in Ids :
          /\ CreateSucceeds(id)
                => Immutable(store'[id])
                     = <<txn'.params[1], txn'.params[2], txn'.params[4],
                         txn'.params[5], txn'.params[6]>>
          /\ (NonEmptyString(store[id]) /\ NonEmptyString(store'[id]))
                => Immutable(store'[id]) = Immutable(store[id])]_vars

\* A bag that was assigned and then moved still has what it was created with.
C12_Witness ==
    \E id \in Ids :
        /\ Succeeded("moveBagToLocation", id)
        /\ Bag(store, id).status = "RECEIVED"
        /\ Bag(store, id).recipient = "R1"
        /\ Immutable(store[id]) = <<id, "D1", "O\\u0000X", "+", "450">>

\* C13: the status of every stored bag is one of UNASSIGNED, INTRANSIT,
\* RECEIVED, ASSIGNED.
C13_StatusInEnum ==
    \A id \in Ids :
        NonEmptyString(store[id])
            => Bag(store, id).status \in {"UNASSIGNED", "INTRANSIT", "RECEIVED", "ASSIGNED"}

\* C14: a bag on which no assign has succeeded since its creation (recipient
\* and destination still hold what create put there) is never RECEIVED.
C14_UnassignedNeverReceived ==
    \A id \in Ids :
        (/\ NonEmptyString(store[id])
         /\ Bag(store, id).recipient = NewBloodBag(<<id, "", "", "", "", "">>).recipient
         /\ Bag(store, id).destination = NewBloodBag(<<id, "", "", "", "", "">>).destination)
        => Bag(store, id).status # "RECEIVED"

\* The bags agree on every property outside changed.
SameExcept(before, after, changed) ==
    /\ DOMAIN after = DOMAIN before
    /\ \A k \in DOMAIN before \ changed : after[k] = before[k]

\* C18: a successful move changes only location and status of the record at
\* its id, a successful assign only recipient, destination and status; neither
\* changes the value of any other key, index entries included.
C18_LifecycleFrame ==
    [][\A id \in Ids :
          /\ (Called("moveBagToLocation", 2, id) /\ txn'.err = NoError)
                => /\ SameExcept(Bag(store, id), Bag(store', id), {"location", "status"})
                   /\ \A k \in Keys \ {id} : store'[k] = store[k]
          /\ (Called("assignBloodBagReceiver", 3, id) /\ txn'.err = NoError)
                => /\ SameExcept(Bag(store, id), Bag(store', id),
                                 {"recipient", "destination", "status"})
                   /\ \A k \in Keys \ {id} : store'[k] = store[k]]_vars

\* A move took an assigned bag elsewhere and left its assignment alone, while
\* the other bag and the index entries are stored too.
C18_Witness ==
    /\ Succeeded("moveBagToLocation", "B1")
    /\ Bag(store, "B1").location = "Hospital"
    /\ Bag(store, "B1").recipient = "R1"
    /\ Bag(store, "B1").destination = "Hospital"
    /\ JSONparse(txn.bagAsBytes).location = "Lab"
    /\ NonEmptyString(store["X\\u0000B1"])

\* C19: a stored bag with status RECEIVED has its location equal to its
\* destination, and one with status INTRANSIT has them different.
C19_StatusMatchesLocation ==
    \A id \in Ids :
        NonEmptyString(store[id]) =>
            /\ Bag(store, id).status = "RECEIVED"
                  => Bag(store, id).location = Bag(store, id).destination
            /\ Bag(store, id).status = "INTRANSIT"
                  => Bag(store, id).location # Bag(store, id).destination

\* A bag that was received at its destination has been assigned to another.
C19_Witness ==
    \E id \in Ids :
        /\ Succeeded("assignBloodBagReceiver", id)
        /\ JSONparse(txn.bagAsBytes).status = "RECEIVED"
        /\ JSONparse(txn.bagAsBytes).destination = "Hospital"
        /\ Bag(store, id).location = "Hospital"
        /\ Bag(store, id).destination = "Clinic"

\* C20: create stores the initial status; as long as the record stays, the
\* status is the initial one after a step exactly when it was before and the
\* step is no successful move or assign on the bag; and a bag with the initial
\* status has the initial recipient and destination.
C20_InitialStatusOnlyUntouched ==
    [][\A id \in Ids :
          LET initial == NewBloodBag(<<id, "", "", "", "", "">>)
          IN  /\ CreateSucceeds(id) => Property(store'[id], "status") = initial.status
              /\ (NonEmptyString(store[id])
                    /\ Property(store[id], "status") = initial.status)
                    => /\ Property(store[id], "recipient") = initial.recipient
                       /\ Property(store[id], "destination") = initial.destination
              /\ (NonEmptyString(store[id]) /\ NonEmptyString(store'[id]))
                    => (Property(store'[id], "status") = initial.status
                          <=> (Property(store[id], "status") = initial.status
                                 /\ ~LifecycleSucceeds(id)))]_vars

\* A bag without destination was moved and no longer has the initial status.
C20_Witness ==
    \E id \in Ids :
        /\ Succeeded("moveBagToLocation", id)
        /\ JSONparse(txn.bagAsBytes).status = "UNASIGNED"
        /\ Bag(store, id).status = "INTRANSIT"
        /\ Bag(store, id).destination = "UNASIGNED"

\* C16: when the value stored under the ID is not empty and does not decode,
\* delete, move and assign each fail with DecodeError and leave every key of
\* the store, the ID's own value and the index entries included, as it was.
C16_UndecodableFailsUnchanged ==
    [][\A id \in Keys :
          ((\/ (Called("deleteBloodBag", 1, id) /\ Len(txn'.params) = 1)
            \/ Called("moveBagToLocation", 2, id)
            \/ Called("assignBloodBagReceiver", 3, id))
           /\ NonEmptyString(store[id])
           /\ JSONparseThrows(store[id]))
          => (txn'.err = DecodeError /\ store' = store)]_vars

\* A delete found a value it could not decode, and the value is still there
\* next to the bag whose index entry it is.
C16_Witness ==
    /\ txn.fcn = "deleteBloodBag"
    /\ txn.err = DecodeError
    /\ txn.bagAsBytes = BufferFrom(U0000)
    /\ store[txn.params[1]] = BufferFrom(U0000)
    /\ NonEmptyString(store["B1"])

\* The positions, from n on, of the modifications that carry a value.
RECURSIVE WithValue(_, _)
WithValue(results, n) ==
    IF n > Len(results) THEN <<>>
    ELSE IF NonEmptyString(results[n].value)
    THEN <<n>> \o WithValue(results, n + 1)
    ELSE WithValue(results, n + 1)

\* C17: a reconstruction that returns has exactly one entry for each
\* modification with a non-empty value, in the iterator's order, the one
\* delivered together with done included, and none for the others; each entry
\* carries its modification's transaction (with metadata) or key (without)
\* and its decoded value, or the raw text when it does not decode.
C17_OneEntryPerValue ==
    (recon.ran /\ ~recon.threw) =>
        LET results == recon.iterator.results
            kept == WithValue(results, 1)
        IN  /\ Len(recon.allResults) = Len(kept)
            /\ \A j \in 1..Len(kept) :
                  LET entry == recon.allResults[j]
                      value == results[kept[j]].value
                  IN  IF recon.isHistory
                      THEN /\ entry.TxId = "tx" \o ToString(kept[j])
                           /\ entry.IsDelete = "false"
                           /\ entry.Value = ParseOrText(value)
                      ELSE /\ entry.Key = "B1"
                           /\ IF JSONparseThrows(value)
                              THEN entry.Value = StringValue(value)
                              ELSE entry.Record = ObjectValue(JSONparse(value))

\* A reconstruction over a delete between two writes, the last write delivered
\* together with done, returned the two writes.
C17_Witness ==
    /\ recon.ran
    /\ ~recon.threw
    /\ recon.iterator.doneWithLast
    /\ Len(recon.iterator.results) = 3
    /\ ~NonEmptyString(recon.iterator.results[2].value)
    /\ NonEmptyString(recon.iterator.results[3].value)
    /\ Len(recon.allResults) = 2
    /\ recon.isHistory
    /\ recon.allResults[2].TxId = "tx3"

C15_ConcurrentIsSerial ==
    (calls.running # <<>>
       /\ calls.running[1].at = "end" /\ calls.running[2].at = "end")
    => \/ store = RunAlone(RunAlone(calls.begin, calls.running[1]), calls.running[2])
       \/ store = RunAlone(RunAlone(calls.begin, calls.running[2]), calls.running[1])

TypeOK ==
    /\ DOMAIN store = Keys
    /\ txn.err \in {NoError, InvalidArgument, AlreadyExists, NotFound, DecodeError,
                  IndexError, IteratorError}
    /\ recon.ran \in BOOLEAN
====
